---------------------------- MODULE Spec2Model ----------------------------
(***************************************************************************)
(* Mailblock SDK (src/index.js): the EmailBuilder fluent accumulator and   *)
(* the Mailblock client's sendEmail pipeline (validation, payload          *)
(* assembly, HTTP exchange, response normalisation, diagnostic logging).   *)
(*                                                                         *)
(* JavaScript values are tagged records; strings are tuples of            *)
(* one-character strings so that the address pattern, trim and the date   *)
(* conversions are computed rather than assumed.                           *)
(***************************************************************************)
EXTENDS Integers, Sequences, FiniteSets

VARIABLES clock, config, builder, call, requests, outcome, log

vars == <<clock, config, builder, call, requests, outcome, log>>

(***************************************************************************)
(* Bound of the exploration, and a constant of the program.                *)
(***************************************************************************)
\* The wall clock runs from 0 to MaxClock milliseconds.
MaxClock == 1

\* Length of the subject prefix written to the log (index.js line 159).
SubjectLogLen == 50

(***************************************************************************)
(* JavaScript values.                                                      *)
(***************************************************************************)
\* A value is [t, s, a]: its type, its characters (a string, the digits of
\* a number, the time value of a Date) and its elements (an array, or the
\* one property record of a JSON object).
Undef == [t |-> "undefined", s |-> <<>>, a |-> <<>>]
Null == [t |-> "null", s |-> <<>>, a |-> <<>>]
Str(s) == [t |-> "string", s |-> s, a |-> <<>>]
Arr(a) == [t |-> "array", s |-> <<>>, a |-> a]

DigitChars == <<"0", "1", "2", "3", "4", "5", "6", "7", "8", "9">>
IsDigit(c) == \E n \in 1..10 : DigitChars[n] = c
DigitVal(c) == (CHOOSE n \in 1..10 : DigitChars[n] = c) - 1

RECURSIVE NumToString(_)
\* Number.prototype.toString of a natural number.
NumToString(n) ==
  IF n < 10 THEN <<DigitChars[n + 1]>>
  ELSE NumToString(n \div 10) \o <<DigitChars[(n % 10) + 1]>>

Num(n) == [t |-> "number", s |-> NumToString(n), a |-> <<>>]
\* A Date whose time value is n.
Date(n) == [t |-> "date", s |-> NumToString(n), a |-> <<>>]
\* new Date(NaN): a Date object holding no instant.
InvalidDate == [t |-> "date", s |-> <<>>, a |-> <<>>]
\* A parsed JSON object (a response body) with property record o.
Obj(o) == [t |-> "object", s |-> <<>>, a |-> <<o>>]
Props(x) == x.a[1]

IsString(x) == x.t = "string"
IsArray(x) == x.t = "array"
IsDate(x) == x.t = "date"
IsValidDate(x) == x.t = "date" /\ x.s # <<>>
\* Date.prototype.getTime of a valid Date (a one-digit time value).
Instant(x) == DigitVal(x.s[1])

\* ToBoolean: undefined, null, "" and 0 are falsy; objects, arrays and Dates
\* (even invalid ones) are truthy.
Truthy(x) ==
  CASE x.t = "undefined" -> FALSE
    [] x.t = "null" -> FALSE
    [] x.t = "string" -> x.s # <<>>
    [] x.t = "number" -> x.s # <<"0">>
    [] OTHER -> TRUE

RECURSIVE JoinComma(_)
\* ToString of a value, as RegExp.prototype.test applies it to its argument.
StringOf(x) ==
  CASE x.t = "string" -> x.s
    [] x.t = "number" -> x.s
    [] x.t = "array" -> JoinComma(x.a)
    [] x.t = "undefined" -> <<"u", "n", "d", "e", "f", "i", "n", "e", "d">>
    [] x.t = "null" -> <<"n", "u", "l", "l">>
    [] OTHER -> <<"[", "o", "b", "j", "e", "c", "t", "]">>
JoinComma(a) ==
  IF a = <<>> THEN <<>>
  ELSE IF Len(a) = 1 THEN StringOf(a[1])
  ELSE StringOf(a[1]) \o <<",">> \o JoinComma(Tail(a))

IsWhitespace(c) == c \in {" ", "\t", "\n"}

RECURSIVE TrimLeft(_)
TrimLeft(s) ==
  IF s # <<>> /\ IsWhitespace(s[1]) THEN TrimLeft(Tail(s)) ELSE s
RECURSIVE TrimRight(_)
TrimRight(s) ==
  IF s # <<>> /\ IsWhitespace(s[Len(s)])
  THEN TrimRight(SubSeq(s, 1, Len(s) - 1)) ELSE s
\* String.prototype.trim
Trim(s) == TrimRight(TrimLeft(s))

\* String.prototype.substring(0, n)
Substring0(s, n) == SubSeq(s, 1, IF Len(s) < n THEN Len(s) ELSE n)

(***************************************************************************)
(* Dates on the wire.  The canonical (toISOString) text of instant n is    *)
(* the digit of n followed by "Z"; the bare digit is another text that     *)
(* new Date(string) parses to the same instant (as "2030-01-01" and        *)
(* "2030-01-01T00:00:00.000Z" are); any other text parses to an invalid    *)
(* Date.                                                                   *)
(***************************************************************************)
toISOString(d) == d.s \o <<"Z">>

DateParse(s) ==
  IF Len(s) = 1 /\ IsDigit(s[1]) THEN Date(DigitVal(s[1]))
  ELSE IF Len(s) = 2 /\ IsDigit(s[1]) /\ s[2] = "Z" THEN Date(DigitVal(s[1]))
  ELSE InvalidDate

\* date <= new Date(): the relational comparison of two Dates by their time
\* values; it is false whenever the left one is NaN.
DateLeqNow(d, now) == IsValidDate(d) /\ Instant(d) <= now

(***************************************************************************)
(* The address pattern /^[^\s@]+@[^\s@]+\.[^\s@]+$/ (index.js lines 90,    *)
(* 370): one "@" at position i > 1, a "." at some position j with at least *)
(* one character between "@" and it and at least one after it, and no     *)
(* whitespace or further "@" anywhere else.                                *)
(***************************************************************************)
EmailRegexTest(s) ==
  \E i \in 1..Len(s) : \E j \in 1..Len(s) :
    /\ i > 1
    /\ s[i] = "@"
    /\ j > i + 1
    /\ j < Len(s)
    /\ s[j] = "."
    /\ \A k \in 1..Len(s) : k # i => ~IsWhitespace(s[k]) /\ s[k] # "@"

\* EmailBuilder._isValidEmail
_isValidEmail(email) == EmailRegexTest(StringOf(email))

(***************************************************************************)
(* Messages: a fixed text with the interpolated field name and value.      *)
(***************************************************************************)
Msg(text, field, arg) == [text |-> text, field |-> field, arg |-> arg]
Plain(text) == Msg(text, "", Undef)

\* A thrown JavaScript error; message is a tuple of words.
Error(name, message) == [name |-> name, message |-> message]

\* String.prototype.includes, at the granularity of words.
Includes(message, word) == \E i \in 1..Len(message) : message[i] = word

(***************************************************************************)
(* Client configuration (Mailblock.constructor) and logging (_log).        *)
(***************************************************************************)
BaseUrl == "https://sdk-backend-production-20e1.up.railway.app"
SendEndpoint == <<BaseUrl, "/v1/send-email">>
ApiKey == "key"

\* The log sinks explored: console has every level; "noError" is a sink
\* without an error method; "throwing" is a sink whose methods all throw.
Loggers == {"console", "noError", "throwing"}
Configs ==
  {[debug |-> FALSE, logger |-> "console"]}
    \cup {[debug |-> TRUE, logger |-> l] : l \in Loggers}

\* this.logger[level](...) returns normally.
LoggerAccepts(level) ==
  CASE config.logger = "console" -> TRUE
    [] config.logger = "noError" -> level # "error"
    [] OTHER -> FALSE

\* What a failing this.logger[level](...) throws.
LoggerError ==
  IF config.logger = "throwing" THEN Error("Error", <<"sink", "failed">>)
  ELSE Error("TypeError", <<"this.logger[level]", "is", "not", "a", "function">>)

\* _log throws: only with debug on, when the sink call fails.
LogThrows(level) == config.debug /\ ~LoggerAccepts(level)

\* The entries _log appends to the sink: none with debug off.
LogEntries(level, message, data, now) ==
  IF config.debug /\ LoggerAccepts(level)
  THEN <<[level |-> level, time |-> toISOString(Date(now)),
          message |-> message, data |-> data]>>
  ELSE <<>>

(***************************************************************************)
(* Mailblock._categorizeError and _getErrorSuggestion.                      *)
(***************************************************************************)
_categorizeError(statusCode) ==
  IF statusCode >= 400 /\ statusCode < 500 THEN "CLIENT_ERROR"
  ELSE IF statusCode >= 500 THEN "SERVER_ERROR"
  ELSE IF statusCode = 429 THEN "RATE_LIMIT_ERROR"
  ELSE "UNKNOWN_ERROR"

DefaultSuggestion == "Please try again or contact support if the issue persists"
RateLimitSuggestion == "You are being rate limited. Wait a moment and try again"
NetworkSuggestion == "Check your internet connection and try again"

_getErrorSuggestion(statusCode) ==
  CASE statusCode = 400 -> "Check your request parameters and try again"
    [] statusCode = 401 -> "Verify your API key is correct and has proper permissions"
    [] statusCode = 403 -> "Your API key may not have permission for this operation"
    [] statusCode = 404 -> "The API endpoint was not found. Check the base URL"
    [] statusCode = 429 -> RateLimitSuggestion
    [] statusCode = 500 -> "Server error occurred. Try again in a few moments"
    [] statusCode = 503 -> "Service temporarily unavailable. Please try again later"
    [] OTHER -> DefaultSuggestion

(***************************************************************************)
(* Mailblock._validateEmailFields.                                         *)
(***************************************************************************)
Valid == [isValid |-> TRUE, error |-> Plain("")]
Invalid(error) == [isValid |-> FALSE, error |-> error]

\* The elements of a list that fail the element check, in list order.
BadElements(a) ==
  {i \in 1..Len(a) : ~IsString(a[i]) \/ ~EmailRegexTest(a[i].s)}
FirstBad(a) == a[CHOOSE i \in BadElements(a) : \A j \in BadElements(a) : i <= j]

\* The validateEmailOrArray helper of _validateEmailFields.
validateEmailOrArray(emails, fieldName) ==
  IF IsString(emails)
  THEN IF ~EmailRegexTest(emails.s)
       THEN Invalid(Msg("Invalid email address", fieldName, emails))
       ELSE Valid
  ELSE IF IsArray(emails)
  THEN IF emails.a = <<>>
       THEN Invalid(Msg("array cannot be empty", fieldName, Undef))
       ELSE IF BadElements(emails.a) # {}
       THEN Invalid(Msg("Invalid email address", fieldName, FirstBad(emails.a)))
       ELSE Valid
  ELSE Invalid(Msg("must be a string or array of strings", fieldName, Undef))

\* Mutant of _validateEmailFields: the sender is checked before the recipient.
_validateEmailFieldsSwapped(to, cc, bcc, from) ==
  IF ~EmailRegexTest(StringOf(from))
  THEN Invalid(Msg("Invalid email address", "sender", from))
  ELSE IF ~validateEmailOrArray(to, "recipient").isValid
  THEN validateEmailOrArray(to, "recipient")
  ELSE IF cc # Undef /\ ~validateEmailOrArray(cc, "cc").isValid
  THEN validateEmailOrArray(cc, "cc")
  ELSE IF bcc # Undef /\ ~validateEmailOrArray(bcc, "bcc").isValid
  THEN validateEmailOrArray(bcc, "bcc")
  ELSE Valid

_validateEmailFields(to, cc, bcc, from) ==
  IF ~validateEmailOrArray(to, "recipient").isValid
  THEN validateEmailOrArray(to, "recipient")
  ELSE IF ~EmailRegexTest(StringOf(from))
  THEN Invalid(Msg("Invalid email address", "sender", from))
  ELSE IF cc # Undef /\ ~validateEmailOrArray(cc, "cc").isValid
  THEN validateEmailOrArray(cc, "cc")
  ELSE IF bcc # Undef /\ ~validateEmailOrArray(bcc, "bcc").isValid
  THEN validateEmailOrArray(bcc, "bcc")
  ELSE Valid

ToRequired == Plain("Recipient email address (to) is required")
FromRequired == Plain("Sender email address (from) is required")
SubjectRequired == Plain("Email subject is required")
ContentRequired == Plain("Either text or html content is required")

\* The validation of sendEmail (lines 161-222): the first failing check.
ValidateSend(in) ==
  IF ~Truthy(in.to) THEN Invalid(ToRequired)
  ELSE IF ~Truthy(in.from) THEN Invalid(FromRequired)
  ELSE IF ~Truthy(in.subject) THEN Invalid(SubjectRequired)
  ELSE IF ~Truthy(in.text) /\ ~Truthy(in.html) THEN Invalid(ContentRequired)
  ELSE _validateEmailFields(in.to, in.cc, in.bcc, in.from)

(***************************************************************************)
(* Mailblock.sendEmail, up to the fetch call (lines 154-254).               *)
(***************************************************************************)
Threw(error, logs) == [kind |-> "threw", error |-> error, logs |-> logs]
Returned(envelope, logs) ==
  [kind |-> "returned", envelope |-> envelope, logs |-> logs]
Fetching(payload, logs) == [kind |-> "fetch", payload |-> payload, logs |-> logs]

\* _generateRequestId: 'req_' + a random suffix + the time.
_generateRequestId(suffix, now) == <<"req_", suffix, now>>

\* Mutant of ValidationEnvelope: a validation failure reported as a 400.
ValidationEnvelope400(error, requestId, timestamp, duration) ==
  [success |-> FALSE, error |-> error, errorType |-> "CLIENT_ERROR",
   statusCode |-> Num(400), requestId |-> requestId, timestamp |-> timestamp,
   duration |-> duration]

\* The envelope of a validation failure (lines 163-221).
ValidationEnvelope(error, requestId, timestamp, duration) ==
  [success |-> FALSE, error |-> error, errorType |-> "VALIDATION_ERROR",
   statusCode |-> Null, requestId |-> requestId, timestamp |-> timestamp,
   duration |-> duration]

\* Mutant of PayloadKeys: the optional keys are written unconditionally.
PayloadKeysAlways(in) == {"to", "from", "subject", "text", "html", "cc", "bcc"}

\* The keys of the object literal of lines 224-232.
PayloadKeys(in) ==
  {"to", "from", "subject"}
    \cup (IF Truthy(in.text) THEN {"text"} ELSE {})
    \cup (IF Truthy(in.html) THEN {"html"} ELSE {})
    \cup (IF Truthy(in.cc) THEN {"cc"} ELSE {})
    \cup (IF Truthy(in.bcc) THEN {"bcc"} ELSE {})

\* Lines 234-237: Date.prototype.toISOString throws a RangeError on an
\* invalid Date.
ScheduleThrows(in) ==
  Truthy(in.scheduledAt) /\ IsDate(in.scheduledAt) /\ ~IsValidDate(in.scheduledAt)

scheduled_at(in) ==
  IF IsDate(in.scheduledAt) THEN Str(toISOString(in.scheduledAt))
  ELSE in.scheduledAt

\* The payload of lines 224-237.
BuildPayload(in) ==
  [k \in PayloadKeys(in)
          \cup (IF Truthy(in.scheduledAt) THEN {"scheduled_at"} ELSE {}) |->
     IF k = "scheduled_at" THEN scheduled_at(in) ELSE in[k]]

Redacted(x) == IF Truthy(x) THEN Str(<<"[REDACTED]">>) ELSE Undef

\* Mutant of RedactedPayload: the payload is logged as it is sent.
RedactedPayloadVerbatim(in, payload) ==
  [k \in DOMAIN payload \cup {"text", "html"} |->
     IF k \in DOMAIN payload THEN payload[k] ELSE Undef]

\* The payload as logged at lines 239-243.
RedactedPayload(in, payload) ==
  [k \in DOMAIN payload \cup {"text", "html"} |->
     IF k \in {"text", "html"} THEN Redacted(in[k]) ELSE payload[k]]

\* subject?.substring(0, 50) + '...' (line 159) is evaluated whether or not
\* debug is on; it throws a TypeError when subject is neither nullish nor a
\* string.
SubjectPreviewThrows(in) == in.subject.t \notin {"undefined", "null", "string"}

SubjectPreview(in) ==
  IF IsString(in.subject)
  THEN Str(Substring0(in.subject.s, SubjectLogLen) \o <<".", ".", ".">>)
  ELSE Str(StringOf(Undef) \o <<".", ".", ".">>)

SendEmailSync(in, requestId, now) ==
  LET startTime == now
      timestamp == Str(toISOString(Date(now)))
      l1 == LogEntries("info", "Initiating email send request",
                       [requestId |-> requestId, to |-> in.to, from |-> in.from,
                        subject |-> SubjectPreview(in)], now)
      payload == BuildPayload(in)
      l2 == LogEntries("debug", "Sending API request",
                       [requestId |-> requestId, endpoint |-> SendEndpoint,
                        payload |-> RedactedPayload(in, payload)], now)
  IN IF SubjectPreviewThrows(in)
     THEN Threw(Error("TypeError",
                      <<"subject?.substring", "is", "not", "a", "function">>), <<>>)
     ELSE IF LogThrows("info") THEN Threw(LoggerError, <<>>)
     ELSE IF ~ValidateSend(in).isValid
     THEN Returned(ValidationEnvelope(ValidateSend(in).error, requestId,
                                      timestamp, now - startTime), l1)
     ELSE IF ScheduleThrows(in)
     THEN Threw(Error("RangeError", <<"Invalid", "time", "value">>), l1)
     ELSE IF LogThrows("debug") THEN Threw(LoggerError, l1)
     ELSE Fetching(payload, l1 \o l2)

\* The request handed to fetch (lines 246-254).
HttpRequest(requestId, payload) ==
  [method |-> "POST", url |-> SendEndpoint,
   headers |-> [ContentType |-> "application/json",
                Authorization |-> <<"Bearer", ApiKey>>,
                XRequestID |-> requestId],
   body |-> payload]

(***************************************************************************)
(* The transport: what fetch and response.json() can produce.              *)
(***************************************************************************)
Statuses == {200, 304, 404, 429, 502}
ResponseOk(status) == status >= 200 /\ status <= 299

JsonObject(error, id, results) ==
  Obj([error |-> error, id |-> id, results |-> results])
FlatBody == JsonObject(Undef, Str(<<"x1">>), Undef)
ErrorBody == JsonObject(Str(<<"Invalid API key">>), Undef, Undef)
BatchedBody == JsonObject(Undef, Undef, Arr(<<FlatBody>>))

\* A body is either text response.json() cannot parse, or a JSON value.
Unparseable == [json |-> FALSE, value |-> Undef]
Json(value) == [json |-> TRUE, value |-> value]
Bodies == {Unparseable, Json(Null), Json(FlatBody), Json(ErrorBody), Json(BatchedBody)}

\* How fetch rejects when there is no response: a TypeError "fetch failed"
\* for a connection or DNS failure, an AbortError when the caller's signal
\* aborts the exchange.
ConnectionFailure == Error("TypeError", <<"fetch", "failed">>)
Aborted == Error("AbortError", <<"This", "operation", "was", "aborted">>)
TransportErrors == {ConnectionFailure, Aborted}

(***************************************************************************)
(* Mailblock.sendEmail after the fetch (lines 256-334).                     *)
(***************************************************************************)
\* Mutant of CatchErrorType: every exception is reported as a network error.
CatchErrorTypeAlwaysNetwork(error) == "NETWORK_ERROR"

\* Line 310.
CatchErrorType(error) ==
  IF error.name = "TypeError" /\ Includes(error.message, "fetch")
  THEN "NETWORK_ERROR" ELSE "UNKNOWN_ERROR"

\* The catch block (lines 308-334).
Catch(c, error, logs, now) ==
  LET duration == now - c.startTime
      errorType == CatchErrorType(error)
      l == LogEntries("error", "Request failed with exception",
                      [requestId |-> c.requestId, error |-> error.message,
                       errorType |-> errorType, duration |-> duration], now)
  IN IF LogThrows("error") THEN Threw(LoggerError, logs)
     ELSE Returned(
            [success |-> FALSE,
             error |-> Msg("Failed to send email:", "", Str(error.message)),
             errorType |-> errorType,
             suggestion |-> IF errorType = "NETWORK_ERROR"
                            THEN NetworkSuggestion ELSE DefaultSuggestion,
             statusCode |-> Null, requestId |-> c.requestId,
             timestamp |-> c.timestamp, duration |-> duration,
             endpoint |-> SendEndpoint], logs \o l)

NullProperty(name) ==
  Error("TypeError", <<"Cannot", "read", "properties", "of", "null", name>>)

\* The try block once fetch has resolved with a response (lines 256-307).
OnResponse(c, status, body, now) ==
  LET result == body.value
      duration == now - c.startTime
      l1 == LogEntries("debug", "API response received",
                       [requestId |-> c.requestId, statusCode |-> status,
                        duration |-> duration, success |-> ResponseOk(status)],
                       now)
      errorType == _categorizeError(status)
      errorMessage == IF Truthy(Props(result).error) THEN Props(result).error
                      ELSE Msg("HTTP error! status:", "", Num(status))
      suggestion == _getErrorSuggestion(status)
      l2 == LogEntries("error", "API request failed",
                       [requestId |-> c.requestId, error |-> errorMessage,
                        statusCode |-> status, errorType |-> errorType,
                        suggestion |-> suggestion], now)
      scheduled == Truthy(c.input.scheduledAt)
      l3 == LogEntries("info",
                       IF scheduled THEN "Email scheduled successfully"
                       ELSE "Email sent successfully",
                       [requestId |-> c.requestId, duration |-> duration,
                        emailId |-> Props(result).id], now)
  IN IF ~body.json
     THEN Catch(c, Error("SyntaxError", <<"Unexpected", "token">>), <<>>, now)
     ELSE IF LogThrows("debug") THEN Catch(c, LoggerError, <<>>, now)
     ELSE IF ~ResponseOk(status)
     THEN IF result = Null THEN Catch(c, NullProperty("error"), l1, now)
          ELSE IF LogThrows("error") THEN Catch(c, LoggerError, l1, now)
          ELSE Returned(
                 [success |-> FALSE, error |-> errorMessage,
                  errorType |-> errorType, suggestion |-> suggestion,
                  statusCode |-> Num(status), requestId |-> c.requestId,
                  timestamp |-> c.timestamp, duration |-> duration,
                  endpoint |-> SendEndpoint], l1 \o l2)
     ELSE IF result = Null THEN Catch(c, NullProperty("id"), l1, now)
     ELSE IF LogThrows("info") THEN Catch(c, LoggerError, l1, now)
     ELSE Returned(
            [success |-> TRUE, data |-> result,
             message |-> IF scheduled THEN "Email scheduled successfully"
                         ELSE "Email sent successfully",
             requestId |-> c.requestId, timestamp |-> c.timestamp,
             duration |-> duration], l1 \o l3)

(***************************************************************************)
(* EmailBuilder (lines 1-117).  emailData is a function from the keys set  *)
(* so far to their values; given and schedCheckedAt are history: the       *)
(* values the setters were called with, and the time scheduleAt checked    *)
(* its date.                                                               *)
(***************************************************************************)
Fields == {"to", "cc", "bcc", "from", "subject", "text", "html", "scheduledAt"}

Get(data, k) == IF k \in DOMAIN data THEN data[k] ELSE Undef
Put(data, key, value) ==
  [k \in DOMAIN data \cup {key} |-> IF k = key THEN value ELSE data[k]]

\* An object read by destructuring: absent keys read as undefined.
Destructure(data) == [k \in Fields |-> Get(data, k)]

NoTime == 0 - 1
EmptyBuilder == [emailData |-> <<>>, given |-> <<>>, schedCheckedAt |-> NoTime]

\* EmailBuilder._validateEmailOrArray returns (rather than throws).
_validateEmailOrArray(emails) ==
  \/ IsString(emails) /\ _isValidEmail(emails)
  \/ /\ IsArray(emails)
     /\ emails.a # <<>>
     /\ \A i \in 1..Len(emails.a) :
          IsString(emails.a[i]) /\ _isValidEmail(emails.a[i])

\* Whether each setter accepts its argument, and the value it stores.
SubjectAccepts(subject) ==
  Truthy(subject) /\ IsString(subject) /\ Len(Trim(subject.s)) # 0
ContentAccepts(content) == Truthy(content) /\ IsString(content)
ScheduleAtAccepts(date, now) ==
  IF IsDate(date) THEN ~DateLeqNow(date, now)
  ELSE IF IsString(date)
  THEN IsValidDate(DateParse(date.s)) /\ ~DateLeqNow(DateParse(date.s), now)
  ELSE FALSE
ScheduleAtValue(date) == IF IsDate(date) THEN date ELSE DateParse(date.s)

\* Mutant of Set: the field is assigned before its value is checked.
SetUnchecked(b, key, arg, accepts, stored, now) ==
  [emailData |-> Put(b.emailData, key, stored),
   given |-> Put(b.given, key, arg),
   schedCheckedAt |-> IF key = "scheduledAt" THEN now ELSE b.schedCheckedAt]

\* The builder after a setter call: unchanged when the setter throws,
\* otherwise with `stored` under `key`.
Set(b, key, arg, accepts, stored, now) ==
  IF accepts
  THEN [emailData |-> Put(b.emailData, key, stored),
        given |-> Put(b.given, key, arg),
        schedCheckedAt |-> IF key = "scheduledAt" THEN now ELSE b.schedCheckedAt]
  ELSE b

(***************************************************************************)
(* The values the operations are called with.                              *)
(***************************************************************************)
Addr1 == <<"a", "@", "b", ".", "c">>
Addr2 == <<"d", "@", "e", ".", "f">>
NoDot == <<"a", "@", "b", "c">>
Spaced == <<"a", " ", "@", "b", ".", "c">>
ToValues == {Undef, Str(Addr1), Arr(<<Str(Addr1), Str(NoDot)>>), Num(42)}
FromValues == {Undef, Str(Addr2), Str(Spaced)}
SubjectValues == {Undef, Str(<<" ", "H", "i", " ">>), Str(<<" ">>), Num(7)}
TextValues == {Undef, Str(<<>>), Str(<<"b", "o", "d", "y">>)}
HtmlValues == {Undef, Str(<<"<", "p", ">">>)}
CcValues == {Undef, Arr(<<>>), Arr(<<Str(Addr1), Str(Addr2)>>)}
BccValues == {Undef, Str(Addr2), Str(NoDot)}
SchedInstants == 0..MaxClock
SchedValues ==
  {Undef, InvalidDate, Str(<<"s", "o", "o", "n">>)}
    \cup {Date(n) : n \in SchedInstants}
    \cup {Str(<<DigitChars[MaxClock + 1]>>)}
RandomSuffixes == {"k3x"}

Inputs ==
  [to : ToValues, cc : CcValues, bcc : BccValues, from : FromValues,
   subject : SubjectValues, text : TextValues, html : HtmlValues,
   scheduledAt : SchedValues]

(***************************************************************************)
(* State machine.                                                          *)
(***************************************************************************)
IdleCall == [pc |-> "idle"]
NoResult == [kind |-> "none"]

Init ==
  /\ clock = 0
  /\ config \in Configs
  /\ builder = EmptyBuilder
  /\ call = IdleCall
  /\ requests = <<>>
  /\ outcome = NoResult
  /\ log = <<>>

\* Time passes while nothing is running or while the exchange is in flight.
Tick ==
  /\ clock < MaxClock
  /\ call.pc \in {"idle", "awaiting"}
  /\ clock' = clock + 1
  /\ UNCHANGED <<config, builder, call, requests, outcome, log>>

\* Mailblock.email(): a fresh builder.
email ==
  /\ call.pc = "idle"
  /\ builder # EmptyBuilder
  /\ builder' = EmptyBuilder
  /\ UNCHANGED <<clock, config, call, requests, outcome, log>>

to ==
  /\ call.pc = "idle"
  /\ \E emails \in ToValues :
       builder' = Set(builder, "to", emails, _validateEmailOrArray(emails),
                      emails, clock)
  /\ UNCHANGED <<clock, config, call, requests, outcome, log>>

cc ==
  /\ call.pc = "idle"
  /\ \E emails \in CcValues :
       builder' = Set(builder, "cc", emails,
                      emails # Undef /\ _validateEmailOrArray(emails),
                      emails, clock)
  /\ UNCHANGED <<clock, config, call, requests, outcome, log>>

bcc ==
  /\ call.pc = "idle"
  /\ \E emails \in BccValues :
       builder' = Set(builder, "bcc", emails,
                      emails # Undef /\ _validateEmailOrArray(emails),
                      emails, clock)
  /\ UNCHANGED <<clock, config, call, requests, outcome, log>>

from ==
  /\ call.pc = "idle"
  /\ \E e \in FromValues :
       builder' = Set(builder, "from", e, _isValidEmail(e), e, clock)
  /\ UNCHANGED <<clock, config, call, requests, outcome, log>>

subject ==
  /\ call.pc = "idle"
  /\ \E s \in SubjectValues :
       builder' = Set(builder, "subject", s, SubjectAccepts(s),
                      Str(Trim(StringOf(s))), clock)
  /\ UNCHANGED <<clock, config, call, requests, outcome, log>>

text ==
  /\ call.pc = "idle"
  /\ \E content \in TextValues :
       builder' = Set(builder, "text", content, ContentAccepts(content),
                      content, clock)
  /\ UNCHANGED <<clock, config, call, requests, outcome, log>>

html ==
  /\ call.pc = "idle"
  /\ \E content \in HtmlValues :
       builder' = Set(builder, "html", content, ContentAccepts(content),
                      content, clock)
  /\ UNCHANGED <<clock, config, call, requests, outcome, log>>

scheduleAt ==
  /\ call.pc = "idle"
  /\ \E date \in SchedValues :
       builder' = Set(builder, "scheduledAt", date,
                      ScheduleAtAccepts(date, clock), ScheduleAtValue(date),
                      clock)
  /\ UNCHANGED <<clock, config, call, requests, outcome, log>>

\* The synchronous part of a sendEmail call: it throws, returns a
\* validation envelope, or issues the request and suspends.
StartCall(via, in, given, checkedAt) ==
  \E suffix \in RandomSuffixes :
    LET requestId == _generateRequestId(suffix, clock)
        out == SendEmailSync(in, requestId, clock)
    IN /\ call' = [pc |-> IF out.kind = "fetch" THEN "awaiting" ELSE "done",
                   via |-> via, input |-> in, given |-> given,
                   schedCheckedAt |-> checkedAt, requestId |-> requestId,
                   startTime |-> clock,
                   timestamp |-> Str(toISOString(Date(clock))),
                   exchange |-> [kind |-> "none"]]
       /\ requests' = IF out.kind = "fetch"
                      THEN Append(requests, HttpRequest(requestId, out.payload))
                      ELSE requests
       /\ outcome' = IF out.kind = "fetch" THEN NoResult
                    ELSE [r \in DOMAIN out \ {"logs"} |-> out[r]]
       /\ log' = log \o out.logs
       /\ UNCHANGED <<clock, config, builder>>

\* Mailblock.sendEmail called with a flat object.  A run makes one send,
\* through the builder or through the flat API: the flat call is explored
\* on a client whose builder is unused.
sendEmail ==
  /\ call.pc = "idle"
  /\ builder = EmptyBuilder
  /\ \E in \in Inputs : StartCall("flat", in, in, clock)

\* EmailBuilder.send
send ==
  /\ call.pc = "idle"
  /\ StartCall("builder", Destructure(builder.emailData),
               Destructure(builder.given), builder.schedCheckedAt)

Complete(exchange, out) ==
  /\ call' = [call EXCEPT !.pc = "done", !.exchange = exchange]
  /\ outcome' = [r \in DOMAIN out \ {"logs"} |-> out[r]]
  /\ log' = log \o out.logs
  /\ UNCHANGED <<clock, config, builder, requests>>

\* fetch resolves with a response; the body is read and the call completes.
FetchResolve ==
  /\ call.pc = "awaiting"
  /\ \E status \in Statuses : \E body \in Bodies :
       Complete([kind |-> "response", status |-> status, body |-> body],
                OnResponse(call, status, body, clock))

\* fetch rejects: there is no response.
FetchReject ==
  /\ call.pc = "awaiting"
  /\ \E error \in TransportErrors :
       Complete([kind |-> "rejected", error |-> error],
                Catch(call, error, <<>>, clock))

Next ==
  \/ Tick
  \/ email
  \/ to
  \/ cc
  \/ bcc
  \/ from
  \/ subject
  \/ text
  \/ html
  \/ scheduleAt
  \/ send
  \/ sendEmail
  \/ FetchResolve
  \/ FetchReject

Spec == Init /\ [][Next]_vars

(***************************************************************************)
(* Properties.                                                             *)
(***************************************************************************)
Done == call.pc = "done"
ReturnedEnvelope == Done /\ outcome.kind = "returned"
envelope == outcome.envelope
Transmitted == requests # <<>>
payload == requests[1].body
GotResponse == Done /\ call.exchange.kind = "response"
Rejected == Done /\ call.exchange.kind = "rejected"
\* The response carried a JSON object.
ObjectBody == call.exchange.body.json /\ call.exchange.body.value.t = "object"

\* C1: for a response with status 429 the envelope's errorType is
\* RATE_LIMIT_ERROR (not CLIENT_ERROR) and the suggestion is the 429 text.
C1_RateLimit ==
  (ReturnedEnvelope /\ GotResponse /\ call.exchange.status = 429 /\ ObjectBody)
    => /\ envelope.errorType = "RATE_LIMIT_ERROR"
       /\ envelope.suggestion = RateLimitSuggestion

\* C2: a call whose input fails validation returns an envelope with
\* success = false, errorType = VALIDATION_ERROR and statusCode = null, and
\* issues no HTTP request.
C2_ValidationRejects ==
  (call.pc # "idle" /\ ~ValidateSend(call.input).isValid)
    => /\ requests = <<>>
       /\ call.exchange.kind = "none"
       /\ ReturnedEnvelope
            => /\ envelope.success = FALSE
               /\ envelope.errorType = "VALIDATION_ERROR"
               /\ envelope.statusCode = Null

\* C2 witness: a call with an invalid address field has returned.
C2_Witness ==
  /\ ReturnedEnvelope
  /\ Truthy(call.input.to) /\ Truthy(call.input.from)
  /\ Truthy(call.input.subject) /\ Truthy(call.input.text)
  /\ ~ValidateSend(call.input).isValid

\* C3: every transmitted scheduled_at is a valid instant that was strictly
\* after the time at which the call's schedule was validated (the sendEmail
\* call for the flat API, scheduleAt for the builder).
C3_ScheduledInFuture ==
  (Transmitted /\ "scheduled_at" \in DOMAIN payload)
    => /\ IsValidDate(DateParse(payload.scheduled_at.s))
       /\ Instant(DateParse(payload.scheduled_at.s)) > call.schedCheckedAt

\* C4: a sendEmail call never completes by throwing; it returns an envelope
\* carrying requestId, timestamp and duration.
C4_NeverThrows ==
  Done => /\ outcome.kind = "returned"
          /\ {"requestId", "timestamp", "duration"} \subseteq DOMAIN envelope

(***************************************************************************)
(* C5: the rules of the specification, in its order.  Each is a pair       *)
(* <<fails, error>>.                                                       *)
(***************************************************************************)
Absent(x) == x \in {Undef, Null, Str(<<>>)}
AddressRule(x, fieldName) ==
  <<~validateEmailOrArray(x, fieldName).isValid,
    validateEmailOrArray(x, fieldName).error>>
Rules(in) ==
  << <<Absent(in.to), ToRequired>>,
     <<Absent(in.from), FromRequired>>,
     <<Absent(in.subject), SubjectRequired>>,
     <<Absent(in.text) /\ Absent(in.html), ContentRequired>>,
     AddressRule(in.to, "recipient"),
     <<~EmailRegexTest(StringOf(in.from)),
       Msg("Invalid email address", "sender", in.from)>>,
     <<in.cc # Undef /\ AddressRule(in.cc, "cc")[1], AddressRule(in.cc, "cc")[2]>>,
     <<in.bcc # Undef /\ AddressRule(in.bcc, "bcc")[1],
       AddressRule(in.bcc, "bcc")[2]>> >>
Failing(rules) == {i \in 1..Len(rules) : rules[i][1]}
FirstFailing(rules) ==
  CHOOSE i \in Failing(rules) : \A j \in Failing(rules) : i <= j

\* C5: the validation error an envelope reports is that of the first failing
\* rule in the order to, from, subject, content, then the addresses of to,
\* from, cc, bcc; a request without `to` reports "to is required".
C5_FirstFailingRule ==
  ReturnedEnvelope
    => LET rules == Rules(call.input)
           failing == Failing(rules)
       IN failing # {}
            => /\ envelope.errorType = "VALIDATION_ERROR"
               /\ envelope.error = rules[FirstFailing(rules)][2]
               /\ Absent(call.input.to) => envelope.error = ToRequired

\* C5 witness: the recipient, the sender and the cc addresses are all
\* invalid, and the call has returned.
C5_Witness ==
  /\ ReturnedEnvelope
  /\ {5, 6, 7} \subseteq Failing(Rules(call.input))
  /\ FirstFailing(Rules(call.input)) = 5

\* The classification of a status as the specification states it.
StatusClass(status) ==
  IF status >= 400 /\ status <= 499 THEN "CLIENT_ERROR"
  ELSE IF status >= 500 THEN "SERVER_ERROR" ELSE "UNKNOWN_ERROR"

\* C6: for a non-2xx response, whatever its body, the envelope has
\* success = false, statusCode = the status, errorType = the class of the
\* status, and error = the backend's error field or the generic message.
C6_HttpFailure ==
  (ReturnedEnvelope /\ GotResponse /\ ~ResponseOk(call.exchange.status))
    => /\ envelope.success = FALSE
       /\ envelope.statusCode = Num(call.exchange.status)
       /\ envelope.errorType = StatusClass(call.exchange.status)
       /\ envelope.error =
            IF ObjectBody /\ Props(call.exchange.body.value).error # Undef
            THEN Props(call.exchange.body.value).error
            ELSE Msg("HTTP error! status:", "", Num(call.exchange.status))

\* C7: when fetch rejects (no response), the envelope has success = false
\* and statusCode = null; a connection failure gives NETWORK_ERROR, any
\* other failure UNKNOWN_ERROR, and the two carry different suggestions.
C7_TransportFailure ==
  (ReturnedEnvelope /\ Rejected)
    => /\ envelope.success = FALSE
       /\ envelope.statusCode = Null
       /\ envelope.errorType =
            IF call.exchange.error = ConnectionFailure
            THEN "NETWORK_ERROR" ELSE "UNKNOWN_ERROR"
       /\ envelope.suggestion =
            IF call.exchange.error = ConnectionFailure
            THEN NetworkSuggestion ELSE DefaultSuggestion
       /\ NetworkSuggestion # DefaultSuggestion

\* C7 witness: an envelope returned after a connection failure.
C7_Witness ==
  ReturnedEnvelope /\ Rejected /\ call.exchange.error = ConnectionFailure

\* C8: a request sent through the builder carries the payload the flat API
\* builds from the values the setters were given.
C8_BuilderFlatSamePayload ==
  (Transmitted /\ call.via = "builder") => payload = BuildPayload(call.given)

\* C9: every transmitted subject is non-empty after trimming.
C9_SubjectNonEmpty ==
  Transmitted => Len(Trim(StringOf(payload.subject))) > 0

\* A field the request holds with a non-empty value.
Present(x) == x \notin {Undef, Null, Str(<<>>), Arr(<<>>)}

\* C10: a transmitted payload has to, from and subject and, of text, html,
\* cc and bcc, exactly the present ones, each with the request's value and
\* none empty.
C10_OnlyPresentFields ==
  Transmitted
    => /\ {"to", "from", "subject"} \subseteq DOMAIN payload
       /\ DOMAIN payload \subseteq
            {"to", "from", "subject", "text", "html", "cc", "bcc", "scheduled_at"}
       /\ \A k \in {"text", "html", "cc", "bcc"} :
            /\ k \in DOMAIN payload <=> Present(call.input[k])
            /\ k \in DOMAIN payload
                 => payload[k] = call.input[k] /\ Present(payload[k])

\* C10 witness: a request went out for an input with an empty text beside
\* an html body and no bcc.
C10_Witness ==
  /\ Transmitted
  /\ call.input.text = Str(<<>>)
  /\ call.input.bcc = Undef
  /\ "html" \in DOMAIN payload

\* The Date a scheduledAt argument denotes: itself, or the parse of a string.
GivenInstant(x) == IF IsDate(x) THEN x ELSE DateParse(StringOf(x))
SuccessEnvelope ==
  ReturnedEnvelope /\ GotResponse /\ ResponseOk(call.exchange.status)
    /\ envelope.success

\* C11: after a 2xx answer, a call given a scheduledAt that denotes an
\* instant (a Date or a string) has sent scheduled_at = the canonical
\* (toISOString) text of that instant and reports "Email scheduled
\* successfully"; a call given none has sent no scheduled_at and reports
\* "Email sent successfully".
C11_ScheduledCanonical ==
  (SuccessEnvelope
     /\ (call.given.scheduledAt # Undef
           => IsValidDate(GivenInstant(call.given.scheduledAt))))
    => IF call.given.scheduledAt # Undef
       THEN /\ "scheduled_at" \in DOMAIN payload
            /\ payload.scheduled_at =
                 Str(toISOString(GivenInstant(call.given.scheduledAt)))
            /\ envelope.message = "Email scheduled successfully"
       ELSE /\ "scheduled_at" \notin DOMAIN payload
            /\ envelope.message = "Email sent successfully"

\* C12: the data of a success envelope is the backend's object when the
\* body is flat, and the first element of results when the body is batched.
C12_DataNormalised ==
  SuccessEnvelope
    => LET body == call.exchange.body.value
       IN envelope.data =
            IF IsArray(Props(body).results) THEN Props(body).results.a[1]
            ELSE body

\* C13: logging is inert: no sendEmail call completes by throwing the error
\* of a failed logger call (with debug off the sink is never called, so the
\* same call on such a client does not end that way).
C13_LoggingInert ==
  Done => ~(outcome.kind = "threw" /\ outcome.error = LoggerError)

\* A send that differs from `in` only in the content of the text and html it
\* has.
OtherContent(x) == IF Truthy(x) THEN Str(<<"o", "t", "h", "e", "r">>) ELSE x
WithOtherContent(in) ==
  [in EXCEPT !.text = OtherContent(@), !.html = OtherContent(@)]

\* The log entries call c writes when its input is `in`: those of its
\* synchronous part, then those written once the exchange has ended.
LogOfCall(c, in) ==
  LET other == [c EXCEPT !.input = in]
  IN SendEmailSync(in, c.requestId, c.startTime).logs
       \o (IF c.exchange.kind = "response"
           THEN OnResponse(other, c.exchange.status, c.exchange.body, clock).logs
           ELSE IF c.exchange.kind = "rejected"
           THEN Catch(other, c.exchange.error, <<>>, clock).logs
           ELSE <<>>)

\* C14: the log of a send is the log of the send that differs from it only
\* in the content of text and html, and the logged payload holds, for text
\* and html, nothing but the redaction mark or undefined.
C14_ContentNotLogged ==
  call.pc # "idle"
    => /\ log = LogOfCall(call, WithOtherContent(call.input))
       /\ \A i \in 1..Len(log) :
            log[i].message = "Sending API request"
              => /\ log[i].data.payload.text \in {Str(<<"[REDACTED]">>), Undef}
                 /\ log[i].data.payload.html \in {Str(<<"[REDACTED]">>), Undef}

\* C14 witness: a finished send with a text and an html body, on a client
\* that logs, has written its three entries.
C14_Witness ==
  /\ Done
  /\ config.debug
  /\ Len(log) = 3
  /\ Truthy(call.input.text) /\ Truthy(call.input.html)

(***************************************************************************)
(* Two sendEmail calls in flight on one client.  A call suspends at        *)
(* `await fetch(...)` (line 246) and at `await response.json()` (line      *)
(* 256); between a call's steps the other call may run.  `call` and        *)
(* `outcome` hold one entry per call; `requests` is the network and `log`  *)
(* the sink, both shared.  Besides the code's bindings a call records      *)
(* history: seq (how many calls started before it), sent (the position of  *)
(* its request in `requests`, 0 if it sent none) and endTime.              *)
(***************************************************************************)
Calls == 1..2

PlainInput ==
  [to |-> Str(Addr1), cc |-> Undef, bcc |-> Undef, from |-> Str(Addr2),
   subject |-> Str(<<" ", "H", "i", " ">>), text |-> Str(<<"b", "o", "d", "y">>),
   html |-> Undef, scheduledAt |-> Undef]
\* A send, a send that fails validation, a scheduled send with copies, and
\* a send that throws (an invalid Date).
ConcurrentInputs ==
  {PlainInput,
   [PlainInput EXCEPT !.to = Undef],
   [PlainInput EXCEPT !.scheduledAt = Date(MaxClock),
                      !.cc = Arr(<<Str(Addr1), Str(Addr2)>>)],
   [PlainInput EXCEPT !.scheduledAt = InvalidDate]}
ConcurrentStatuses == {200, 404}
ConcurrentBodies == {Unparseable, Json(FlatBody), Json(ErrorBody)}

Started == Cardinality({i \in Calls : call[i].pc # "idle"})
LastStarted ==
  CHOOSE j \in Calls :
    /\ call[j].pc # "idle"
    /\ \A k \in Calls : call[k].pc # "idle" => call[k].seq <= call[j].seq

\* Mutant of Activation: the bindings kept on the client object, where the
\* call that started last overwrites them.
ActivationShared(i) == call[LastStarted]

\* The parameters and the constants requestId, startTime and timestamp of
\* invocation i (lines 154-157), as its continuations read them after an
\* await: bindings of the invocation itself.
Activation(i) == call[i]

ConcurrentInit ==
  /\ clock = 0
  /\ config \in Configs
  /\ builder = EmptyBuilder
  /\ call = [i \in Calls |-> IdleCall]
  /\ requests = <<>>
  /\ outcome = [i \in Calls |-> NoResult]
  /\ log = <<>>

Elapse ==
  /\ clock < MaxClock
  /\ \E i \in Calls : call[i].pc # "done"
  /\ clock' = clock + 1
  /\ UNCHANGED <<config, builder, call, requests, outcome, log>>

\* Invocation i runs from its entry to its first await, or to its end.
sendEmailCall(i) ==
  /\ call[i].pc = "idle"
  /\ \E in \in ConcurrentInputs : \E suffix \in RandomSuffixes :
       LET requestId == _generateRequestId(suffix, clock)
           out == SendEmailSync(in, requestId, clock)
           issued == out.kind = "fetch"
       IN /\ call' = [call EXCEPT ![i] =
                        [pc |-> IF issued THEN "awaiting" ELSE "done",
                         input |-> in, requestId |-> requestId,
                         startTime |-> clock,
                         timestamp |-> Str(toISOString(Date(clock))),
                         exchange |-> [kind |-> "none"],
                         seq |-> Started,
                         sent |-> IF issued THEN Len(requests) + 1 ELSE 0,
                         endTime |-> clock]]
          /\ requests' = IF issued
                         THEN Append(requests, HttpRequest(requestId, out.payload))
                         ELSE requests
          /\ outcome' = [outcome EXCEPT ![i] =
                           IF issued THEN NoResult
                           ELSE [r \in DOMAIN out \ {"logs"} |-> out[r]]]
          /\ log' = log \o out.logs
          /\ UNCHANGED <<clock, config, builder>>

\* The fetch of invocation i resolves: the invocation awaits the body.
fetchResolves(i) ==
  /\ call[i].pc = "awaiting"
  /\ \E status \in ConcurrentStatuses : \E body \in ConcurrentBodies :
       call' = [call EXCEPT ![i].pc = "reading",
                            ![i].exchange = [kind |-> "response",
                                             status |-> status, body |-> body]]
  /\ UNCHANGED <<clock, config, builder, requests, outcome, log>>

Settle(i, exchange, out) ==
  /\ call' = [call EXCEPT ![i].pc = "done", ![i].exchange = exchange,
                          ![i].endTime = clock]
  /\ outcome' = [outcome EXCEPT ![i] = [r \in DOMAIN out \ {"logs"} |-> out[r]]]
  /\ log' = log \o out.logs
  /\ UNCHANGED <<clock, config, builder, requests>>

\* response.json() of invocation i settles: the rest of the try block runs.
jsonSettles(i) ==
  /\ call[i].pc = "reading"
  /\ Settle(i, call[i].exchange,
            OnResponse(Activation(i), call[i].exchange.status,
                       call[i].exchange.body, clock))

\* The fetch of invocation i rejects: the catch block runs.
fetchRejects(i) ==
  /\ call[i].pc = "awaiting"
  /\ \E error \in TransportErrors :
       Settle(i, [kind |-> "rejected", error |-> error],
              Catch(Activation(i), error, <<>>, clock))

ConcurrentNext ==
  \/ Elapse
  \/ \E i \in Calls : sendEmailCall(i)
  \/ \E i \in Calls : fetchResolves(i)
  \/ \E i \in Calls : jsonSettles(i)
  \/ \E i \in Calls : fetchRejects(i)

ConcurrentSpec == ConcurrentInit /\ [][ConcurrentNext]_vars

\* What invocation c returns or throws when it runs alone: a function of its
\* own input, request id, times and exchange.
AloneOutcome(c) ==
  LET out == IF c.exchange.kind = "response"
             THEN OnResponse(c, c.exchange.status, c.exchange.body, c.endTime)
             ELSE IF c.exchange.kind = "rejected"
             THEN Catch(c, c.exchange.error, <<>>, c.endTime)
             ELSE SendEmailSync(c.input, c.requestId, c.startTime)
  IN [r \in DOMAIN out \ {"logs"} |-> out[r]]

\* The request of an invocation is the one it builds from its own input and
\* request id, and a finished invocation has the outcome it has alone.
OwnRequestAndOutcome(i) ==
  /\ call[i].pc # "idle" /\ call[i].sent # 0
       => requests[call[i].sent] =
            HttpRequest(call[i].requestId, BuildPayload(call[i].input))
  /\ call[i].pc = "done" => outcome[i] = AloneOutcome(call[i])

\* A step leaves the configuration alone, changes at most one invocation,
\* and never changes a finished one or a request already issued.
StepIsolated ==
  /\ config' = config
  /\ \A i \in Calls :
       /\ call[i].pc = "done" => call'[i] = call[i] /\ outcome'[i] = outcome[i]
       /\ call'[i] # call[i] \/ outcome'[i] # outcome[i]
            => \A j \in Calls \ {i} : call'[j] = call[j] /\ outcome'[j] = outcome[j]
  /\ \A n \in 1..Len(requests) : Len(requests') >= n /\ requests'[n] = requests[n]

\* C15: under every interleaving of two calls, each call's request and
\* outcome are those of the call running alone on its own input and its own
\* exchange, no step changes the configuration, and no step of one call
\* changes the other call or its outcome.
C15_CallsDoNotInterfere ==
  /\ [](\A i \in Calls : OwnRequestAndOutcome(i))
  /\ [][StepIsolated]_vars

\* C15 witness: two calls with different inputs were in flight together;
\* the one started first got a 404 and the other was rejected at transport
\* level.
C15_Witness ==
  /\ \A i \in Calls : call[i].pc = "done" /\ call[i].sent # 0
  /\ \E i \in Calls : \E j \in Calls :
       /\ call[i].seq < call[j].seq
       /\ call[j].startTime < call[i].endTime
       /\ call[i].exchange.kind = "response" /\ call[i].exchange.status = 404
       /\ call[j].exchange.kind = "rejected"
       /\ outcome[i].kind = "returned" /\ outcome[j].kind = "returned"
       /\ call[i].input # call[j].input

(***************************************************************************)
(* updateScheduledEmail(emailId, updates).  index.d.ts declares it (lines  *)
(* 79-84, 134) and index.js does not define it; it is modelled from the    *)
(* specification (sections 3, 4.1, 4.2 d and 6): validateUpdateRequest,    *)
(* the sparse payload, the PUT and the normalised result.  `updates` is    *)
(* null or an object, whose property record holds the keys it was given.   *)
(***************************************************************************)
UpdateFields == {"subject", "body_html", "body_text", "scheduled_at"}
UpdateEndpoint(emailId) == <<BaseUrl, "/v1/update-scheduled-email/", StringOf(emailId)>>

IdRequired == Plain("Email ID is required")
UpdatesRequired == Plain("Updates object is required")
UpdateFieldRequired == Plain("At least one field to update is required")
ScheduledAtInvalid == Plain("Invalid scheduled_at")

IdAccepted(emailId) ==
  \/ IsString(emailId) /\ emailId.s # <<>>
  \/ emailId.t = "number"

\* scheduled_at of an update: a Date, null, or a string that parses.
UpdateScheduleAccepted(v) ==
  \/ IsDate(v)
  \/ v = Null
  \/ IsString(v) /\ IsValidDate(DateParse(v.s))

validateUpdateRequest(emailId, updates) ==
  IF ~IdAccepted(emailId) THEN Invalid(IdRequired)
  ELSE IF updates.t # "object" THEN Invalid(UpdatesRequired)
  ELSE IF DOMAIN Props(updates) \cap UpdateFields = {}
  THEN Invalid(UpdateFieldRequired)
  ELSE IF "scheduled_at" \in DOMAIN Props(updates)
            /\ ~UpdateScheduleAccepted(Props(updates).scheduled_at)
  THEN Invalid(ScheduledAtInvalid)
  ELSE Valid

\* Mutant of UpdatePayload: a field is copied only when its value is truthy,
\* as sendEmail copies its optional fields.
UpdatePayloadTruthy(updates) ==
  [k \in {f \in DOMAIN Props(updates) \cap UpdateFields :
            Truthy(Props(updates)[f])} |->
     IF IsDate(Props(updates)[k]) THEN Str(toISOString(Props(updates)[k]))
     ELSE Props(updates)[k]]

\* The sparse payload: the recognised keys the updates hold, a Date as its
\* wire text, null as null.
UpdatePayload(updates) ==
  [k \in DOMAIN Props(updates) \cap UpdateFields |->
     IF IsDate(Props(updates)[k]) THEN Str(toISOString(Props(updates)[k]))
     ELSE Props(updates)[k]]

UpdateHttpRequest(requestId, emailId, body) ==
  [method |-> "PUT", url |-> UpdateEndpoint(emailId),
   headers |-> [ContentType |-> "application/json",
                Authorization |-> <<"Bearer", ApiKey>>,
                XRequestID |-> requestId],
   body |-> body]

\* The envelopes of an update (section 3, ResultEnvelope).
UpdateSuccess(c, data, now) ==
  [success |-> TRUE, data |-> data, requestId |-> c.requestId,
   timestamp |-> c.timestamp, duration |-> now - c.startTime]
UpdateFailure(c, error, errorType, statusCode, now) ==
  [success |-> FALSE, error |-> error, errorType |-> errorType,
   statusCode |-> statusCode, requestId |-> c.requestId,
   timestamp |-> c.timestamp, duration |-> now - c.startTime]

IdValues == {Undef, Str(<<>>), Str(<<"e", "1">>), Num(7)}
UpdateValues ==
  {Null, Obj(<<>>),
   Obj([note |-> Str(<<"x">>)]),
   Obj([subject |-> Str(<<"N", "e", "w">>)]),
   Obj([scheduled_at |-> Null]),
   Obj([subject |-> Str(<<"N", "e", "w">>), scheduled_at |-> Null]),
   Obj([scheduled_at |-> Date(MaxClock)]),
   Obj([scheduled_at |-> Str(<<"0">>)]),
   Obj([scheduled_at |-> Str(<<"s", "o", "o", "n">>)]),
   Obj([body_text |-> Str(<<"b", "o", "d", "y">>), scheduled_at |-> Num(7)])}

\* updateScheduledEmail up to the PUT: a validation envelope, or the request.
updateScheduledEmail ==
  /\ call.pc = "idle"
  /\ \E emailId \in IdValues : \E updates \in UpdateValues :
     \E suffix \in RandomSuffixes :
       LET requestId == _generateRequestId(suffix, clock)
           timestamp == Str(toISOString(Date(clock)))
           checked == validateUpdateRequest(emailId, updates)
       IN /\ call' = [pc |-> IF checked.isValid THEN "awaiting" ELSE "done",
                      emailId |-> emailId, updates |-> updates,
                      requestId |-> requestId, startTime |-> clock,
                      timestamp |-> timestamp, exchange |-> [kind |-> "none"]]
          /\ requests' =
               IF checked.isValid
               THEN Append(requests,
                           UpdateHttpRequest(requestId, emailId,
                                             UpdatePayload(updates)))
               ELSE requests
          /\ outcome' =
               IF checked.isValid THEN NoResult
               ELSE [kind |-> "returned",
                     envelope |-> ValidationEnvelope(checked.error, requestId,
                                                     timestamp, 0)]
  /\ UNCHANGED <<clock, config, builder, log>>

\* The PUT is answered.
UpdateResolve ==
  /\ call.pc = "awaiting"
  /\ \E status \in Statuses : \E body \in {FlatBody, ErrorBody} :
       /\ call' = [call EXCEPT !.pc = "done",
                               !.exchange = [kind |-> "response",
                                             status |-> status,
                                             body |-> Json(body)]]
       /\ outcome' =
            [kind |-> "returned",
             envelope |->
               IF ResponseOk(status) THEN UpdateSuccess(call, body, clock)
               ELSE UpdateFailure(
                      call,
                      IF Truthy(Props(body).error) THEN Props(body).error
                      ELSE Msg("HTTP error! status:", "", Num(status)),
                      StatusClass(status), Num(status), clock)]
  /\ UNCHANGED <<clock, config, builder, requests, log>>

\* The PUT fails at transport level.
UpdateReject ==
  /\ call.pc = "awaiting"
  /\ \E error \in TransportErrors :
       /\ call' = [call EXCEPT !.pc = "done",
                               !.exchange = [kind |-> "rejected",
                                             error |-> error]]
       /\ outcome' =
            [kind |-> "returned",
             envelope |->
               UpdateFailure(call,
                             Msg("Failed to update email:", "",
                                 Str(error.message)),
                             CatchErrorType(error), Null, clock)]
  /\ UNCHANGED <<clock, config, builder, requests, log>>

UpdateNext ==
  \/ Tick
  \/ updateScheduledEmail
  \/ UpdateResolve
  \/ UpdateReject

UpdateSpec == Init /\ [][UpdateNext]_vars

\* The updates of the call hold scheduled_at: null, and its id is valid.
NullSchedule ==
  /\ call.pc # "idle"
  /\ IdAccepted(call.emailId)
  /\ call.updates.t = "object"
  /\ "scheduled_at" \in DOMAIN Props(call.updates)
  /\ Props(call.updates).scheduled_at = Null

\* C16: an update with a valid id and scheduled_at: null passes validation
\* and issues one PUT whose payload has the key scheduled_at with the value
\* null; a payload has the key scheduled_at only if the updates have it.
C16_NullScheduledAtPassedThrough ==
  /\ NullSchedule
       => /\ Len(requests) = 1
          /\ requests[1].method = "PUT"
          /\ requests[1].url = UpdateEndpoint(call.emailId)
          /\ "scheduled_at" \in DOMAIN requests[1].body
          /\ requests[1].body.scheduled_at = Null
          /\ (ReturnedEnvelope /\ ~envelope.success)
               => envelope.errorType # "VALIDATION_ERROR"
  /\ (Transmitted /\ "scheduled_at" \notin DOMAIN Props(call.updates))
       => "scheduled_at" \notin DOMAIN payload

\* C16 witness: an update of the subject with scheduled_at: null was sent and
\* answered.
C16_Witness ==
  /\ NullSchedule
  /\ "subject" \in DOMAIN Props(call.updates)
  /\ GotResponse
  /\ Transmitted

(***************************************************************************)
(* The setters of one EmailBuilder, called in any order with any of the    *)
(* sample values.  `call` records the last builder method called and its   *)
(* argument, `outcome` whether it returned (the builder, `this`) or threw. *)
(***************************************************************************)
ReturnedThis == [kind |-> "returned", value |-> "this"]
ThrewError == [kind |-> "threw", value |-> "Error"]

\* A setter call: the builder after it, and what the call did.  cc and bcc
\* return without validating when the argument is undefined (lines 13, 20).
Called(key, arg, accepts, stored, skips) ==
  /\ builder' = Set(builder, key, arg, accepts, stored, clock)
  /\ call' = [pc |-> "idle", setter |-> key, arg |-> arg]
  /\ outcome' = IF accepts \/ skips THEN ReturnedThis ELSE ThrewError

BuilderInit == Init /\ ~config.debug

emailCalled ==
  /\ builder' = EmptyBuilder
  /\ call' = [pc |-> "idle", setter |-> "email", arg |-> Undef]
  /\ outcome' = ReturnedThis
  /\ UNCHANGED <<clock, config, requests, log>>

toCalled ==
  /\ \E emails \in ToValues :
       Called("to", emails, _validateEmailOrArray(emails), emails, FALSE)
  /\ UNCHANGED <<clock, config, requests, log>>

ccCalled ==
  /\ \E emails \in CcValues :
       Called("cc", emails, emails # Undef /\ _validateEmailOrArray(emails),
              emails, emails = Undef)
  /\ UNCHANGED <<clock, config, requests, log>>

bccCalled ==
  /\ \E emails \in BccValues :
       Called("bcc", emails, emails # Undef /\ _validateEmailOrArray(emails),
              emails, emails = Undef)
  /\ UNCHANGED <<clock, config, requests, log>>

fromCalled ==
  /\ \E e \in FromValues : Called("from", e, _isValidEmail(e), e, FALSE)
  /\ UNCHANGED <<clock, config, requests, log>>

subjectCalled ==
  /\ \E s \in SubjectValues :
       Called("subject", s, SubjectAccepts(s), Str(Trim(StringOf(s))), FALSE)
  /\ UNCHANGED <<clock, config, requests, log>>

textCalled ==
  /\ \E content \in TextValues :
       Called("text", content, ContentAccepts(content), content, FALSE)
  /\ UNCHANGED <<clock, config, requests, log>>

htmlCalled ==
  /\ \E content \in HtmlValues :
       Called("html", content, ContentAccepts(content), content, FALSE)
  /\ UNCHANGED <<clock, config, requests, log>>

scheduleAtCalled ==
  /\ \E date \in SchedValues :
       Called("scheduledAt", date, ScheduleAtAccepts(date, clock),
              ScheduleAtValue(date), FALSE)
  /\ UNCHANGED <<clock, config, requests, log>>

BuilderNext ==
  \/ Tick
  \/ emailCalled
  \/ toCalled
  \/ ccCalled
  \/ bccCalled
  \/ fromCalled
  \/ subjectCalled
  \/ textCalled
  \/ htmlCalled
  \/ scheduleAtCalled

BuilderSpec == BuilderInit /\ [][BuilderNext]_vars

\* Field k of the accumulated record is the same before and after the step.
SameField(k) ==
  /\ k \in DOMAIN builder'.emailData <=> k \in DOMAIN builder.emailData
  /\ Get(builder'.emailData, k) = Get(builder.emailData, k)

\* A step that is a setter call (not email(), not the passing of time).
SetterStep ==
  /\ clock' = clock
  /\ call'.setter # "email"
  /\ call' # call \/ outcome' # outcome \/ builder' # builder

\* C17: a setter that returns has returned the builder and changed no field
\* but its own; a setter that throws has changed no field at all; cc and bcc
\* called with undefined return the builder and change no field.
C17_SettersFrame ==
  [][SetterStep
       => /\ outcome'.kind = "returned"
               => /\ outcome'.value = "this"
                  /\ \A k \in Fields \ {call'.setter} : SameField(k)
          /\ outcome'.kind = "threw" => \A k \in Fields : SameField(k)
          /\ (call'.setter \in {"cc", "bcc"} /\ call'.arg = Undef)
               => /\ outcome' = ReturnedThis
                  /\ \A k \in Fields : SameField(k)]_vars

\* C17 witness: on a builder that holds a recipient, a subject and a cc
\* list, a cc call with an empty list has thrown.
C17_Witness ==
  /\ call.pc = "idle" /\ "setter" \in DOMAIN call
  /\ call.setter = "cc" /\ call.arg = Arr(<<>>)
  /\ outcome = ThrewError
  /\ {"to", "subject", "cc"} \subseteq DOMAIN builder.emailData

\* The call ran the validation of lines 161-222 and passed it (the entry
\* log of line 159 did not throw).
PassedValidation ==
  /\ call.pc # "idle"
  /\ ~SubjectPreviewThrows(call.input)
  /\ ~LogThrows("info")
  /\ ValidateSend(call.input).isValid

\* C18: no call issues a second request; a call that passed validation has
\* issued exactly one, a POST to /v1/send-email with bearer authorization,
\* whose X-Request-ID is the requestId of the envelope the call returns.
C18_ExactlyOneRequest ==
  /\ Len(requests) <= 1
  /\ PassedValidation
       => /\ Len(requests) = 1
          /\ requests[1].method = "POST"
          /\ requests[1].url = SendEndpoint
          /\ requests[1].headers.Authorization = <<"Bearer", ApiKey>>
          /\ ReturnedEnvelope
               => requests[1].headers.XRequestID = envelope.requestId

=============================================================================
